---- MODULE Spec2Model ----
(***************************************************************************)
(* Model of lib/index.js of worldpay-lib-node: the Worldpay client         *)
(* (constructor, disableSSLCheck, setTimeout), order validation            *)
(* (isFloat, checkOrderInput), the shared transport routine sendRequest    *)
(* with its response callback, the three operations createOrder,           *)
(* refundOrder and getStoredCardDetails, the webhook handler factory       *)
(* processWebhook, and the error constructor onError.                      *)
(*                                                                         *)
(* JavaScript values are tagged records: [t |-> type, s |-> text].         *)
(* A call of an operation is one record `call`; the calls of one client    *)
(* share nothing but the configuration, which sendRequest reads once,      *)
(* synchronously, so one call slot (refilled when the call has finished)   *)
(* is followed at a time, while the setters may run during its flight.     *)
(***************************************************************************)
EXTENDS Integers, Sequences, FiniteSets, TLC

VARIABLES client, call, numCalls, hook, hookCall, numHooks

vars == <<client, call, numCalls, hook, hookCall, numHooks>>
clientVars == <<client, call, numCalls>>
hookVars == <<hook, hookCall, numHooks>>

(***************************************************************************)
(* Bounds of the model.                                                    *)
(***************************************************************************)
MaxTimeout == 1
MaxCalls == 2
MaxHooks == 3

(***************************************************************************)
(* JavaScript values.                                                      *)
(***************************************************************************)
Undefined == [t |-> "undefined", s |-> ""]
Null == [t |-> "null", s |-> ""]
Str(x) == [t |-> "string", s |-> x]
Num(x) == [t |-> "number", s |-> x]
Fn(x) == [t |-> "function", s |-> x]

\* ToBoolean of a tagged value: undefined, null, "" and 0 are falsy.
Truthy(v) ==
  CASE v.t = "undefined" -> FALSE
    [] v.t = "null" -> FALSE
    [] v.t = "string" -> v.s # ""
    [] v.t = "number" -> v.s \notin {"0", "NaN"}
    [] OTHER -> TRUE

TypeOf(v) == IF v.t = "null" THEN "object" ELSE v.t

\* Amounts: undefined, or the number whole + frac/10 (frac is one decimal digit).
NoAmount == [t |-> "undefined", whole |-> 0, frac |-> 0]
Amt(w, f) == [t |-> "number", whole |-> w, frac |-> f]

AmountTruthy(a) == a.t = "number" /\ ~(a.whole = 0 /\ a.frac = 0)
\* amount <= 0 (undefined <= 0 compares NaN and is false)
AmountNotPositive(a) == a.t = "number" /\ (a.whole < 0 \/ (a.whole = 0 /\ a.frac = 0))
\* Number.isInteger(x)
NumberIsInteger(a) == a.t = "number" /\ a.frac = 0

\* isFloat(number): Number.isInteger(parseFloat(number)); parseFloat of a
\* number is that number, of undefined it is NaN.
isFloat(number) == NumberIsInteger(number)

(***************************************************************************)
(* Errors.  onError(error, message, code) builds                           *)
(* WorldpayException(errors[error] + message, code): `kind` is the         *)
(* catalog key, `message` the appended detail, `code` the code (0 when the *)
(* argument is left out).                                                  *)
(***************************************************************************)
MsgUndefined == [t |-> "undefined", s |-> ""]
MsgCatalog(k) == [t |-> "catalog", s |-> k]
MsgResponse == [t |-> "response", s |-> ""]

onError(error, message, code) == [kind |-> error, message |-> message, code |-> code]

NoError == [kind |-> "null", message |-> MsgUndefined, code |-> 0]

\* errors a transport can report (err of the request callback)
TransportErrors ==
  { [kind |-> k, message |-> MsgUndefined, code |-> 0] : k \in {"ETIMEDOUT"} }

(***************************************************************************)
(* Client configuration.  A service key is the sequence of its characters. *)
(***************************************************************************)
Endpoint == "https://api.worldpay.com/v1/"

ServiceKeys == { <<>>, <<"T", "k">>, <<"L", "k">>, <<"t", "k">> }

\* timeout arguments: 0 stands for a falsy argument (0 or left out)
Timeouts == 0 .. MaxTimeout

DefaultTimeout == 10
SetTimeoutDefault == 3

NoClient ==
  [constructed |-> FALSE, serviceKey |-> <<>>, timeout |-> 0, disableSsl |-> FALSE,
   endpoint |-> Endpoint, disableArg |-> "unset", error |-> NoError]

\* function Worldpay(serviceKey, timeout)
Worldpay(serviceKey, timeout) ==
  IF serviceKey = <<>>
    THEN [NoClient EXCEPT !.error = onError("key", MsgUndefined, 0)]
    ELSE [constructed |-> TRUE,
          serviceKey |-> serviceKey,
          timeout |-> IF timeout # 0 THEN timeout ELSE DefaultTimeout,
          disableSsl |-> FALSE,
          endpoint |-> Endpoint,
          disableArg |-> "unset",
          error |-> NoError]

\* Worldpay.prototype.disableSSLCheck: disableArg keeps the argument given
disableSSLCheck(this, disable) ==
  [this EXCEPT !.disableSsl = ~disable,
               !.disableArg = IF disable THEN "true" ELSE "false"]

\* Worldpay.prototype.setTimeout
setTimeout(this, timeout) ==
  [this EXCEPT !.timeout = IF timeout # 0 THEN timeout ELSE SetTimeoutDefault]

(***************************************************************************)
(* Orders and their validation.                                            *)
(***************************************************************************)
Amounts == {NoAmount, Amt(0, 0), Amt(-5, 0), Amt(10, 5), Amt(100, 0)}

OrderFields == {"token", "orderDescription", "currencyCode", "name", "billingAddress"}

\* the sets of fields left out of the orders tried
MissingSets ==
  { {} } \cup { {f} : f \in OrderFields } \cup { {"token", "name"}, OrderFields }

\* createOrder called without an order
NoOrder ==
  [given |-> FALSE, token |-> Undefined, orderDescription |-> Undefined,
   amount |-> NoAmount, currencyCode |-> Undefined, name |-> Undefined,
   billingAddress |-> Undefined]

\* the order with every field set but those of `missing`
OrderWith(missing, amount) ==
  LET field(f) == IF f \in missing THEN Undefined ELSE Str("x")
  IN [given |-> TRUE, token |-> field("token"),
      orderDescription |-> field("orderDescription"), amount |-> amount,
      currencyCode |-> field("currencyCode"), name |-> field("name"),
      billingAddress |-> field("billingAddress")]

\* the orders tried: complete ones with every amount, and ones with fields
\* left out and the amount 100 or none
Orders ==
  { OrderWith({}, a) : a \in Amounts }
    \cup { OrderWith(m, a) : m \in MissingSets, a \in {Amt(100, 0), NoAmount} }
    \cup {NoOrder}

\* WorldpayException.errors is the catalog of error templates, an object keyed
\* by symbolic names: it has no length, and `undefined > 0` is false.
CatalogLengthPositive == FALSE

\* the local list `errors` of checkOrderInput when it reaches line 86
orderInputErrors(order) ==
     (IF ~Truthy(order.token) THEN <<"token">> ELSE <<>>)
  \o (IF ~Truthy(order.orderDescription) THEN <<"orderDescription">> ELSE <<>>)
  \o (IF ~AmountTruthy(order.amount) \/ AmountNotPositive(order.amount)
          \/ isFloat(order.amount)
        THEN <<"amount">> ELSE <<>>)
  \o (IF ~Truthy(order.currencyCode) THEN <<"currencyCode">> ELSE <<>>)
  \o (IF ~Truthy(order.name) THEN <<"name">> ELSE <<>>)
  \o (IF ~Truthy(order.billingAddress) THEN <<"billingAddress">> ELSE <<>>)

\* Worldpay.prototype.checkOrderInput: the error it returns, NoError for false.
\* `present` is the truthiness of its argument.
checkOrderInput(order, present) ==
  IF ~present
    THEN onError("ip", MsgUndefined, 0)
    ELSE IF CatalogLengthPositive
      THEN onError("ip", MsgCatalog("errors.join"), 0)
      ELSE NoError

(***************************************************************************)
(* Requests, responses and sendRequest.                                    *)
(***************************************************************************)
NoPayload == [t |-> "undefined"]
JsonUndefined == [t |-> "undefined", payload |-> NoPayload]
JsonFalse == [t |-> "false", payload |-> NoPayload]
JsonTrue == [t |-> "true", payload |-> NoPayload]
JsonObject(p) == [t |-> "object", payload |-> p]

\* the request options of a call; method "" is a method left out
NoOptions ==
  [action |-> <<>>, json |-> JsonUndefined, expectResponse |-> FALSE,
   expectedResult |-> FALSE, method |-> ""]

NoRequest ==
  [url |-> <<>>, method |-> "", json |-> JsonUndefined, timeout |-> 0,
   authorization |-> <<>>, strictSSL |-> TRUE]

\* values handed to callbacks: undefined, true, or a decoded body
ValNone == [t |-> "undefined", orderCode |-> Undefined, paymentMethod |-> Undefined]
ValTrue == [t |-> "boolean", orderCode |-> Undefined, paymentMethod |-> Undefined]
Body(oc, pm) == [t |-> "object", orderCode |-> oc, paymentMethod |-> pm]

PaymentMethodAbc == [t |-> "object", s |-> "{id: abc}"]

Bodies ==
  { Body(oc, pm) : oc \in {Undefined, Str("oc1")}, pm \in {Undefined, PaymentMethodAbc} }
    \cup {ValNone}

StatusCodes == {200, 404}

\* what the transport hands to the request callback: (err), (null, null) or
\* (null, response, body)
NoAnswer == [kind |-> "none", err |-> NoError, statusCode |-> 0, body |-> ValNone]

Answers ==
  { [kind |-> "error", err |-> e, statusCode |-> 0, body |-> ValNone] : e \in TransportErrors }
    \cup { [kind |-> "null", err |-> NoError, statusCode |-> 0, body |-> ValNone] }
    \cup { [kind |-> "response", err |-> NoError, statusCode |-> c, body |-> b] :
             c \in StatusCodes, b \in Bodies }

\* one invocation of a callback with (err, val), or a TypeError thrown instead
Called(err, val) == [cbCount |-> 1, cbErr |-> err, cbVal |-> val, threw |-> FALSE]
Thrown == [cbCount |-> 0, cbErr |-> NoError, cbVal |-> ValNone, threw |-> TRUE]

\* the security gate of sendRequest (line 106)
sslGateInverted(this) == this.disableSsl = TRUE /\ this.serviceKey[1] = "T"
sslGate(this) == this.disableSsl = TRUE /\ this.serviceKey[1] # "T"

\* the argument of request(...) in sendRequest (lines 110-119)
requestOptions(this, options) ==
  [url |-> <<this.endpoint>> \o options.action,
   method |-> IF options.method # "" THEN options.method ELSE "POST",
   json |-> IF options.json.t = "object" THEN options.json ELSE JsonTrue,
   timeout |-> this.timeout,
   authorization |-> this.serviceKey,
   strictSSL |-> ~this.disableSsl]

\* function callback(err, response, body) of sendRequest (lines 121-156):
\* what it does with cb
\* (callbackNoReturn: line 137 without its return, so that line 141 calls cb again)
callbackNoReturn(options, answer) ==
  IF answer.kind = "error"
    THEN Called(answer.err, ValNone)
  ELSE IF options.expectResponse /\ answer.kind = "null"
    THEN Called(onError("uanv", MsgCatalog("json"), 503), ValNone)
  ELSE IF answer.kind = "null"
    THEN Thrown
  ELSE IF options.expectResponse /\ answer.statusCode # 200
    THEN Called(onError("uanv", MsgCatalog("json"), 503), ValNone)
  ELSE IF answer.statusCode # 200
    THEN [Called(onError("apierror", MsgCatalog("response.description"), answer.statusCode),
                 ValNone) EXCEPT !.cbCount = 2]
  ELSE IF ~options.expectResponse /\ answer.statusCode = 200
    THEN Called(NoError, ValTrue)
  ELSE Called(NoError, answer.body)
callback(options, answer) ==
  IF answer.kind = "error"
    THEN Called(answer.err, ValNone)
  ELSE IF options.expectResponse /\ answer.kind = "null"
    THEN Called(onError("uanv", MsgCatalog("json"), 503), ValNone)
  ELSE IF answer.kind = "null"
    THEN Thrown   \* response.statusCode of null
  ELSE IF options.expectResponse /\ answer.statusCode # 200
    THEN Called(onError("uanv", MsgCatalog("json"), 503), ValNone)
  ELSE IF ~options.expectResponse /\ answer.statusCode # 200
    THEN Called(onError("apierror", MsgResponse, answer.statusCode), ValNone)
  ELSE IF answer.statusCode # 200
    THEN Called(onError("apierror", MsgCatalog("response.description"), answer.statusCode),
                ValNone)
  ELSE IF ~options.expectResponse /\ answer.statusCode = 200
    THEN Called(NoError, ValTrue)
  ELSE Called(NoError, answer.body)

(***************************************************************************)
(* A call of an operation: its arguments, the configuration it read, the   *)
(* request it issued, the transport's answer and what reached the caller's *)
(* callback.                                                               *)
(***************************************************************************)
\* what the gate of sendRequest reads of the client (line 106), with the
\* argument the flag was set from
gateRead(this) ==
  [serviceKey |-> this.serviceKey, disableSsl |-> this.disableSsl,
   disableArg |-> this.disableArg]
NoGate == [serviceKey |-> <<>>, disableSsl |-> FALSE, disableArg |-> "unset"]

NoCall ==
  [op |-> "none", order |-> NoOrder, arg |-> Undefined, options |-> NoOptions,
   cfg |-> NoGate, errors |-> <<>>, pc |-> "idle", requests |-> 0,
   req |-> NoRequest, answer |-> NoAnswer,
   cbCount |-> 0, cbErr |-> NoError, cbVal |-> ValNone, threw |-> FALSE]

\* the caller's callback is invoked (or an exception escapes) and the call ends
finish(c, r) ==
  [c EXCEPT !.pc = "done", !.cbCount = @ + r.cbCount, !.cbErr = r.cbErr,
            !.cbVal = r.cbVal, !.threw = r.threw]

\* Worldpay.prototype.sendRequest up to the request (lines 103-119)
sendRequest(this, c, options) ==
  IF sslGate(this)
    THEN finish([c EXCEPT !.options = options],
                Called(onError("ssl", MsgUndefined, 0), ValNone))
    ELSE [c EXCEPT !.options = options, !.pc = "inflight", !.requests = @ + 1,
                   !.req = requestOptions(this, options)]

\* _.merge(defaults, order) projected to the wire payload (lines 174-192)
orderPayload(order) ==
  [token |-> order.token,
   orderDescription |-> order.orderDescription,
   amount |-> order.amount,
   currencyCode |-> order.currencyCode,
   name |-> order.name,
   orderType |-> Str("ECOM"),
   billingAddress |-> IF order.billingAddress = Undefined THEN Null
                      ELSE order.billingAddress,
   customerOrderCode |-> Undefined,
   customerIdentifiers |-> Null]

\* Worldpay.prototype.createOrder up to the request (lines 166-195)
createOrder(this, order) ==
  LET c == [NoCall EXCEPT !.op = "createOrder", !.order = order, !.cfg = gateRead(this),
                          !.errors = orderInputErrors(order)]
      orderValidationError == checkOrderInput(order, TRUE)
  IN IF orderValidationError # NoError
       THEN finish(c, Called(orderValidationError, ValNone))
       ELSE sendRequest(this, c,
              [action |-> <<"orders">>, json |-> JsonObject(orderPayload(order)),
               expectResponse |-> FALSE, expectedResult |-> TRUE, method |-> ""])

\* the callback createOrder gives to sendRequest (lines 195-206)
createOrderCallback(r) ==
  IF r.cbCount = 0 THEN r
  ELSE IF r.cbErr # NoError THEN Called(r.cbErr, ValNone)
  ELSE IF r.cbVal.t = "undefined" THEN Thrown   \* response.orderCode of undefined
  ELSE IF ~Truthy(r.cbVal.orderCode)
    THEN Called(onError("apierror", MsgUndefined, 0), ValNone)
  ELSE Called(NoError, r.cbVal)

\* the argument check of refundOrder and getStoredCardDetails (lines 215, 229)
isUsableStringTruthyOnly(v) == Truthy(v)
isUsableString(v) == Truthy(v) /\ TypeOf(v) = "string"

\* Worldpay.prototype.refundOrder (lines 214-220)
refundOrder(this, orderCode) ==
  LET c == [NoCall EXCEPT !.op = "refundOrder", !.arg = orderCode, !.cfg = gateRead(this)]
  IN IF ~isUsableString(orderCode)
       THEN finish(c, Called(onError("ip", MsgCatalog("refund.ordercode"), 0), ValNone))
       ELSE sendRequest(this, c,
              [action |-> <<"orders/", orderCode.s, "/refund">>, json |-> JsonUndefined,
               expectResponse |-> FALSE, expectedResult |-> FALSE, method |-> ""])

\* Worldpay.prototype.getStoredCardDetails up to the request (lines 228-240)
getStoredCardDetails(this, token) ==
  LET c == [NoCall EXCEPT !.op = "getStoredCardDetails", !.arg = token, !.cfg = gateRead(this)]
  IN IF ~isUsableString(token)
       THEN finish(c, Called(onError("ip", MsgCatalog("orderInput.token"), 0), ValNone))
       ELSE sendRequest(this, c,
              [action |-> <<"tokens/", token.s>>, json |-> JsonFalse,
               expectResponse |-> FALSE, expectedResult |-> TRUE, method |-> "GET"])

\* the callback getStoredCardDetails gives to sendRequest (lines 240-250)
getStoredCardDetailsCallback(r) ==
  IF r.cbCount = 0 THEN r
  ELSE IF r.cbErr # NoError THEN Called(r.cbErr, ValNone)
  ELSE IF r.cbVal.t = "undefined" THEN Thrown   \* response.paymentMethod of undefined
  ELSE IF ~Truthy(r.cbVal.paymentMethod)
    THEN Called(onError("apierror", MsgUndefined, 0), ValNone)
  ELSE Called(NoError, r.cbVal.paymentMethod)

\* the request callback followed by the callback the operation gave
deliver(c, answer) ==
  LET r == callback(c.options, answer)
      out == CASE c.op = "createOrder" -> createOrderCallback(r)
               [] c.op = "getStoredCardDetails" -> getStoredCardDetailsCallback(r)
               [] OTHER -> r
  IN finish([c EXCEPT !.answer = answer], out)

\* arguments tried for orderCode and token
ArgValues == {Undefined, Str(""), Str("a1"), Num("42")}

\* options tried for sendRequest called directly
DirectOptions ==
  [action : {<<"orders">>}, json : {JsonUndefined}, expectResponse : BOOLEAN,
   expectedResult : {FALSE}, method : {"", "GET"}]

(***************************************************************************)
(* The webhook handler factory.  hook is the handler processWebhook        *)
(* returned last (a closure over its parameters token and cb), hookCall    *)
(* the last inbound request given to it and what the handler did.          *)
(***************************************************************************)
Obj(x) == [t |-> "object", s |-> x]

NoHook == [made |-> FALSE, token |-> Undefined, cb |-> Undefined]
NoHookCall ==
  [via |-> NoHook, method |-> "", body |-> Undefined, cbCount |-> 0,
   cbFn |-> Undefined, cbErr |-> NoError, cbVal |-> Undefined, threw |-> FALSE]

\* argument lists tried for processWebhook
WebhookArgs ==
  { <<Fn("onReceived")>>, <<Str("tok"), Fn("onReceived")>>,
    <<Undefined, Fn("onReceived")>>, <<>> }

Methods == {"POST", "GET", "PUT"}
RequestBodies == {Undefined, Null, Str(""), Obj("{}"), Obj("{foo: 1}")}

\* the i-th argument of a call, undefined when it is not given
Arg(args, i) == IF i <= Len(args) THEN args[i] ELSE Undefined

\* Worldpay.processWebhook(token, cb): the closure it returns
processWebhook(args) == [made |-> TRUE, token |-> Arg(args, 1), cb |-> Arg(args, 2)]

\* what the handler hands to cb (lines 262-270)
handlerResult(req) ==
  IF req.method # "POST"
    THEN [err |-> onError("notificationPost", MsgUndefined, 0), val |-> Undefined]
  ELSE IF ~Truthy(req.body)
    THEN [err |-> onError("notificationUnknown", MsgUndefined, 0), val |-> Undefined]
  ELSE [err |-> NoError, val |-> req.body]

\* the handler processWebhook returns, given the request req (lines 261-271)
handler(h, req) ==
  LET out == handlerResult(req)
  IN IF h.cb.t # "function"
       THEN \* cb is not a function: the call of cb throws a TypeError
            [via |-> h, method |-> req.method, body |-> req.body, cbCount |-> 0,
             cbFn |-> Undefined, cbErr |-> NoError, cbVal |-> Undefined, threw |-> TRUE]
       ELSE [via |-> h, method |-> req.method, body |-> req.body, cbCount |-> 1,
             cbFn |-> h.cb, cbErr |-> out.err, cbVal |-> out.val, threw |-> FALSE]

(***************************************************************************)
(* The client's state machine.                                             *)
(***************************************************************************)
Init ==
  /\ client = NoClient
  /\ call = NoCall
  /\ numCalls = 0
  /\ hook = NoHook
  /\ hookCall = NoHookCall
  /\ numHooks = 0

Construct ==
  /\ ~client.constructed
  /\ \E serviceKey \in ServiceKeys, timeout \in Timeouts :
       client' = Worldpay(serviceKey, timeout)
  /\ UNCHANGED <<call, numCalls, hookVars>>

DisableSSLCheck ==
  /\ client.constructed
  /\ \E disable \in BOOLEAN : client' = disableSSLCheck(client, disable)
  /\ UNCHANGED <<call, numCalls, hookVars>>

SetTimeout ==
  /\ client.constructed
  /\ \E timeout \in Timeouts : client' = setTimeout(client, timeout)
  /\ UNCHANGED <<call, numCalls, hookVars>>

CanCall == client.constructed /\ call.pc # "inflight" /\ numCalls < MaxCalls

CreateOrder ==
  /\ CanCall
  /\ \E order \in Orders : call' = createOrder(client, order)
  /\ numCalls' = numCalls + 1
  /\ UNCHANGED <<client, hookVars>>

RefundOrder ==
  /\ CanCall
  /\ \E orderCode \in ArgValues : call' = refundOrder(client, orderCode)
  /\ numCalls' = numCalls + 1
  /\ UNCHANGED <<client, hookVars>>

GetStoredCardDetails ==
  /\ CanCall
  /\ \E token \in ArgValues : call' = getStoredCardDetails(client, token)
  /\ numCalls' = numCalls + 1
  /\ UNCHANGED <<client, hookVars>>

SendRequest ==
  /\ CanCall
  /\ \E options \in DirectOptions :
       call' = sendRequest(client, [NoCall EXCEPT !.op = "sendRequest", !.cfg = gateRead(client)],
                           options)
  /\ numCalls' = numCalls + 1
  /\ UNCHANGED <<client, hookVars>>

\* the transport answers the request in flight and the callbacks run
TransportAnswer ==
  /\ call.pc = "inflight"
  /\ \E answer \in Answers : call' = deliver(call, answer)
  /\ UNCHANGED <<client, numCalls, hookVars>>

Next ==
  \/ Construct
  \/ DisableSSLCheck
  \/ SetTimeout
  \/ CreateOrder
  \/ RefundOrder
  \/ GetStoredCardDetails
  \/ SendRequest
  \/ TransportAnswer

Spec == Init /\ [][Next]_vars

ProcessWebhook ==
  /\ \E args \in WebhookArgs : hook' = processWebhook(args)
  /\ UNCHANGED <<hookCall, numHooks, clientVars>>

\* an inbound request reaches the handler
HandleRequest ==
  /\ hook.made
  /\ numHooks < MaxHooks
  /\ \E method \in Methods, body \in RequestBodies :
       hookCall' = handler(hook, [method |-> method, body |-> body])
  /\ numHooks' = numHooks + 1
  /\ UNCHANGED <<hook, clientVars>>

WebhookNext ==
  \/ ProcessWebhook
  \/ HandleRequest

WebhookSpec == Init /\ [][WebhookNext]_vars

\* the transport answers every request (with a response or an error: the
\* configured timeout ends a request that gets no response)
LiveSpec == Spec /\ WF_vars(TransportAnswer)

(***************************************************************************)
(* What the specification calls valid input.                               *)
(***************************************************************************)
Operations == {"createOrder", "refundOrder", "getStoredCardDetails"}

\* the amount is present, strictly positive and a whole number
AmountIsPositiveWhole(a) == a.t = "number" /\ a.whole > 0 /\ a.frac = 0

\* the fields of an order that fail the six input checks, as a set
FailingFields(order) ==
  { f \in OrderFields : order[f].t = "undefined" \/ (order[f].t = "string" /\ order[f].s = "") }
    \cup (IF AmountIsPositiveWhole(order.amount) THEN {} ELSE {"amount"})

\* a non-empty string
IsNonEmptyString(v) == v.t = "string" /\ v.s # ""

\* the call in the slot was made with valid input
ValidInput ==
  \/ call.op = "createOrder" /\ FailingFields(call.order) = {}
  \/ call.op \in {"refundOrder", "getStoredCardDetails"} /\ IsNonEmptyString(call.arg)

\* the credential the call was made with is a live one
LiveCredential == call.cfg.serviceKey # <<>> /\ call.cfg.serviceKey[1] # "T"

\* the elements of a sequence
Elements(seq) == { seq[i] : i \in DOMAIN seq }

C2_DisableTrueClosesGate ==
  (call.op \in Operations /\ ValidInput /\ call.cfg.disableArg = "true") =>
    IF LiveCredential
      THEN call.pc = "done" /\ call.requests = 0 /\ call.cbErr.kind = "ssl"
      ELSE call.requests = 1

(***************************************************************************)
(* C3: createOrder with an order that fails one of the six input checks    *)
(* fails with the input error, carrying a message about the fields, and    *)
(* issues no request.                                                      *)
(***************************************************************************)
C3_InvalidOrderStopsAtGate ==
  (call.op = "createOrder" /\ FailingFields(call.order) # {}) =>
    /\ call.pc = "done"
    /\ call.requests = 0
    /\ call.cbErr.kind = "ip"
    /\ call.cbErr.message # MsgUndefined

(***************************************************************************)
(* C4: the amount check adds the amount error to the accumulated list      *)
(* exactly when the amount is not a present, strictly positive whole       *)
(* number: not for 100, but for 0, -5, 10.5 and an absent amount.          *)
(***************************************************************************)
C4_AmountCheck ==
  call.op = "createOrder" =>
    ("amount" \in Elements(call.errors) <=> ~AmountIsPositiveWhole(call.order.amount))

(***************************************************************************)
(* C5: createOrder with a valid order, answered with status 200, succeeds  *)
(* with the whole response body exactly when the body has an orderCode,    *)
(* and fails with the apierror error otherwise.                            *)
(***************************************************************************)
C5_CreateOrderOn200 ==
  (call.op = "createOrder" /\ ValidInput /\ call.pc = "done"
     /\ call.answer.kind = "response" /\ call.answer.statusCode = 200) =>
    IF Truthy(call.answer.body.orderCode)
      THEN call.cbCount = 1 /\ call.cbErr = NoError /\ call.cbVal = call.answer.body
      ELSE call.cbCount = 1 /\ call.cbErr.kind = "apierror"

(***************************************************************************)
(* C6: getStoredCardDetails with a non-empty string token, answered with   *)
(* status 200, succeeds with exactly the paymentMethod of the body when    *)
(* the body has one, and fails with the apierror error only otherwise.     *)
(***************************************************************************)
C6_CardDetailsOn200 ==
  (call.op = "getStoredCardDetails" /\ ValidInput /\ call.pc = "done"
     /\ call.answer.kind = "response" /\ call.answer.statusCode = 200) =>
    IF Truthy(call.answer.body.paymentMethod)
      THEN call.cbCount = 1 /\ call.cbErr = NoError
           /\ call.cbVal = call.answer.body.paymentMethod
      ELSE call.cbCount = 1 /\ call.cbErr.kind = "apierror"

(***************************************************************************)
(* C7: on a response whose status is not 200, createOrder and              *)
(* getStoredCardDetails fail with the uanv error and code 503, refundOrder *)
(* fails with the apierror error and the status as code; no such response  *)
(* yields a success.                                                       *)
(***************************************************************************)
C7_Non200 ==
  (call.op \in Operations /\ call.pc = "done"
     /\ call.answer.kind = "response" /\ call.answer.statusCode # 200) =>
    /\ call.cbErr # NoError
    /\ call.op \in {"createOrder", "getStoredCardDetails"} =>
         call.cbErr.kind = "uanv" /\ call.cbErr.code = 503
    /\ call.op = "refundOrder" =>
         call.cbErr.kind = "apierror" /\ call.cbErr.code = call.answer.statusCode

(***************************************************************************)
(* C8: refundOrder with an empty or non-string orderCode, and              *)
(* getStoredCardDetails with an empty or non-string token, end in the      *)
(* callback with the input error and issue no request, whatever the TLS    *)
(* and timeout configuration.                                              *)
(***************************************************************************)
C8_BadArgumentNoRequest ==
  (call.op \in {"refundOrder", "getStoredCardDetails"} /\ ~IsNonEmptyString(call.arg)) =>
    /\ call.pc = "done"
    /\ call.requests = 0
    /\ call.req = NoRequest
    /\ call.cbCount = 1
    /\ call.cbErr.kind = "ip"
    /\ call.cbVal = ValNone

C8_Witness ==
  /\ call.op = "refundOrder"
  /\ call.arg = Num("42")
  /\ call.cfg.disableSsl
  /\ LiveCredential
  /\ call.cbErr.kind = "ip"
  /\ call.requests = 0

(***************************************************************************)
(* What the webhook handler owes the completion callback for the request   *)
(* in hookCall: exactly one invocation of fn, with the method error when   *)
(* the method is not POST (whatever the body), with the notification error *)
(* when the method is POST and the body is falsy (absent, null or the      *)
(* empty string), and with (null, body) otherwise.                         *)
(***************************************************************************)
BodyAbsentOrEmpty(b) == b.t \in {"undefined", "null"} \/ (b.t = "string" /\ b.s = "")

InvokedOnce(fn) ==
  /\ ~hookCall.threw
  /\ hookCall.cbCount = 1
  /\ hookCall.cbFn = fn
  /\ hookCall.method # "POST" =>
       hookCall.cbErr.kind = "notificationPost" /\ hookCall.cbVal = Undefined
  /\ (hookCall.method = "POST" /\ BodyAbsentOrEmpty(hookCall.body)) =>
       hookCall.cbErr.kind = "notificationUnknown" /\ hookCall.cbVal = Undefined
  /\ (hookCall.method = "POST" /\ ~BodyAbsentOrEmpty(hookCall.body)) =>
       hookCall.cbErr = NoError /\ hookCall.cbVal = hookCall.body

(***************************************************************************)
(* C9: the handler returned by processWebhook(onReceived), the             *)
(* completion callback being the argument given to processWebhook, invokes *)
(* that callback exactly once per inbound request, with the method error,  *)
(* the notification error or (null, body).                                 *)
(***************************************************************************)
C9_FirstArgumentIsCallback ==
  (numHooks > 0 /\ hookCall.via.token.t = "function") =>
    InvokedOnce(hookCall.via.token)

(***************************************************************************)
(* What the handler does do: made by processWebhook(token, cb), with the   *)
(* completion callback as the second argument, it invokes cb exactly once  *)
(* per inbound request, as C9 describes.                                   *)
(***************************************************************************)
SecondArgumentIsCallback ==
  (numHooks > 0 /\ hookCall.via.cb.t = "function") =>
    InvokedOnce(hookCall.via.cb)

(***************************************************************************)
(* C10: a call of createOrder, refundOrder or getStoredCardDetails issues  *)
(* at most one HTTP request and invokes the caller's callback at most      *)
(* once, never with both an error and a value; once the call has ended,    *)
(* the transport having answered with an error or a response if a request  *)
(* was issued, the callback has been invoked exactly once; and a call      *)
(* whose request is in flight eventually ends.                             *)
(***************************************************************************)
C10_OneRequestOneCallback ==
  /\ [](call.op \in Operations =>
          /\ call.requests <= 1
          /\ call.cbCount <= 1
          /\ (call.cbErr # NoError => call.cbVal = ValNone)
          /\ (call.pc = "done" /\ call.answer.kind # "null") =>
               /\ call.cbCount = 1
               /\ ~call.threw
               /\ (call.answer.kind = "none" <=> call.requests = 0))
  /\ (call.op \in Operations /\ call.pc = "inflight") ~> (call.pc = "done")

C10_Witness ==
  /\ call.op = "createOrder"
  /\ call.pc = "done"
  /\ call.requests = 1
  /\ call.answer.kind = "response"
  /\ call.answer.statusCode = 200
  /\ call.cbCount = 1

====
